---------------------------- MODULE Spec2Model ----------------------------
(***************************************************************************)
(* Model of crates/wasmlink/runtime/src/lib.rs: the free-list Slab, the    *)
(* IndexSlab / ResourceSlab built on it, the global SLABS registry behind  *)
(* a Mutex, and the four exported functions resource_insert, resource_get, *)
(* resource_clone and resource_remove.                                     *)
(*                                                                         *)
(* Rust values are modelled as follows.                                    *)
(*   Entry<T>      Full(x)  = [tag |-> "Full",  item |-> x]                *)
(*                 Empty{n} = [tag |-> "Empty", next |-> n]                *)
(*   Slab<T>       [storage |-> sequence of entries, next |-> cursor]      *)
(*                 (Rust index i is TLA+ index i + 1)                      *)
(*   Option<T>     None = [some |-> FALSE], Some(x) = [some |-> TRUE, ...] *)
(*   Resource      [wasm |-> u32, references |-> counter]                  *)
(*   u32 values    ValBits bits wide, the u64 result 2 * ValBits bits; the *)
(*                 reference counter RefBits bits                          *)
(*   ResourceIndex the u32 it wraps                                        *)
(*   IndexSlab, ResourceSlab: the Slab they wrap (one-field structs)       *)
(*   a panic       the field panic |-> TRUE of an operation's outcome; the *)
(*                 tables in the outcome are those at the panic point.     *)
(* A panic inside an extern "C" function ends the process: the state       *)
(* aborted = TRUE has no successor.                                        *)
(***************************************************************************)
EXTENDS Integers, Sequences, FiniteSets, TLC

\* ------------------------------------------------------------------------
\* Bounds of the model
\* ------------------------------------------------------------------------

\* Largest module id a caller passes.
MaxId == 1

\* Largest total number of handle slots (over all modules) the callers
\* allocate.
MaxSlots == 3

\* Largest total number of Resource Table slots (over all modules) the
\* callers allocate.
MaxResources == 2

\* Width of the reference counter in the model (u32 in the source).
RefBits == 2

\* Largest storage length of the stand-alone Slab.
MaxSlabLen == 3

\* Number of threads calling the boundary concurrently.
NumThreads == 2

\* Number of boundary calls the threads make in all.
MaxCalls == 3

\* Width of an underlying value in the model (u32 in the source); the
\* result of resource_remove (u64 in the source) is twice as wide.
ValBits == 8

\* ------------------------------------------------------------------------
\* Values
\* ------------------------------------------------------------------------

\* u32::MAX at the model's width.
U32Max == 2^ValBits - 1

RefMax == 2^RefBits - 1

\* Underlying resource values the sequential and concurrent callers
\* insert.
Values == {0, 42}

ModuleIds == 0 .. MaxId

None == [some |-> FALSE]

Some(x) == [some |-> TRUE, val |-> x]

Full(x) == [tag |-> "Full", item |-> x]

Empty(n) == [tag |-> "Empty", next |-> n]

\* ------------------------------------------------------------------------
\* Slab<T>
\* ------------------------------------------------------------------------

Slab_default == [storage |-> <<>>, next |-> 0]

\* Faulty variant of Slab_insert: the cursor is advanced by one instead of
\* taking the next field of the Empty entry it overwrites.
Slab_insert_bump(self, item) ==
    LET pushed == IF self.next = Len(self.storage)
                  THEN Append(self.storage, Empty(self.next + 1))
                  ELSE self.storage
    IN  IF self.next >= Len(pushed)
        THEN [slab |-> [self EXCEPT !.storage = pushed], ret |-> self.next,
              panic |-> TRUE]
        ELSE LET old == pushed[self.next + 1]
                 replaced == [pushed EXCEPT ![self.next + 1] = Full(item)]
             IN  [slab |-> [storage |-> replaced, next |-> self.next + 1],
                  ret |-> self.next, panic |-> old.tag # "Empty"]

\* Faulty variant of Slab_insert: the item is always pushed at the end of
\* the storage; no Empty entry is used again.
Slab_insert_grow(self, item) ==
    [slab |-> [storage |-> Append(self.storage, Full(item)),
               next |-> IF self.next = Len(self.storage)
                        THEN self.next + 1 ELSE self.next],
     ret |-> Len(self.storage), panic |-> FALSE]

\* Slab::insert. The outcome is [slab, ret, panic]: indexing past the end
\* panics before any change to the entries; unreachable!() panics after
\* mem::replace has already overwritten the entry.
Slab_insert(self, item) ==
    LET pushed == IF self.next = Len(self.storage)
                  THEN Append(self.storage, Empty(self.next + 1))
                  ELSE self.storage
    IN  IF self.next >= Len(pushed)
        THEN [slab |-> [self EXCEPT !.storage = pushed], ret |-> self.next,
              panic |-> TRUE]
        ELSE LET old == pushed[self.next + 1]
                 replaced == [pushed EXCEPT ![self.next + 1] = Full(item)]
             IN  IF old.tag = "Empty"
                 THEN [slab |-> [storage |-> replaced, next |-> old.next],
                       ret |-> self.next, panic |-> FALSE]
                 ELSE [slab |-> [storage |-> replaced, next |-> self.next],
                       ret |-> self.next, panic |-> TRUE]

\* Slab::get and Slab::get_mut: the item of a Full entry in range.
Slab_get(self, idx) ==
    IF idx >= Len(self.storage) THEN None
    ELSE IF self.storage[idx + 1].tag = "Full"
         THEN Some(self.storage[idx + 1].item)
         ELSE None

\* Faulty variant of Slab_remove: an Empty entry is not put back; it is
\* threaded onto the free list a second time.
Slab_remove_relink(self, idx) ==
    IF idx >= Len(self.storage) THEN [slab |-> self, ret |-> None]
    ELSE LET old == self.storage[idx + 1]
         IN  [slab |-> [storage |-> [self.storage EXCEPT
                                       ![idx + 1] = Empty(self.next)],
                        next |-> idx],
              ret |-> IF old.tag = "Full" THEN Some(old.item) ELSE None]

\* Faulty variant of Slab_remove: the cursor moves to the removed index
\* only when that index is below it.
Slab_remove_lowest(self, idx) ==
    IF idx >= Len(self.storage) THEN [slab |-> self, ret |-> None]
    ELSE LET old == self.storage[idx + 1]
         IN  IF old.tag = "Full"
             THEN [slab |-> [storage |-> [self.storage EXCEPT
                                            ![idx + 1] = Empty(self.next)],
                             next |-> IF idx < self.next THEN idx
                                      ELSE self.next],
                   ret |-> Some(old.item)]
             ELSE [slab |-> self, ret |-> None]

\* Slab::remove. The outcome is [slab, ret]; an Empty entry is put back as
\* it was.
Slab_remove(self, idx) ==
    IF idx >= Len(self.storage) THEN [slab |-> self, ret |-> None]
    ELSE LET old == self.storage[idx + 1]
         IN  IF old.tag = "Full"
             THEN [slab |-> [storage |-> [self.storage EXCEPT
                                            ![idx + 1] = Empty(self.next)],
                             next |-> idx],
                   ret |-> Some(old.item)]
             ELSE [slab |-> self, ret |-> None]

\* get_mut followed by an assignment through the reference.
Slab_set(self, idx, item) ==
    [self EXCEPT !.storage[idx + 1] = Full(item)]

\* ------------------------------------------------------------------------
\* IndexSlab
\* ------------------------------------------------------------------------

IndexSlab_insert(self, resource) == Slab_insert(self, resource)

IndexSlab_get(self, slab_idx) == Slab_get(self, slab_idx)

IndexSlab_remove(self, slab_idx) == Slab_remove(self, slab_idx)

\* ------------------------------------------------------------------------
\* ResourceSlab
\* ------------------------------------------------------------------------

Resource(wasm, references) == [wasm |-> wasm, references |-> references]

\* Faulty variant of ResourceSlab_insert: the counter starts at 0.
ResourceSlab_insert_zero(self, wasm) == Slab_insert(self, Resource(wasm, 0))

ResourceSlab_insert(self, wasm) == Slab_insert(self, Resource(wasm, 1))

\* Faulty variant of ResourceSlab_get: the wrong field is returned.
ResourceSlab_get_counter(self, idx) ==
    LET r == Slab_get(self, idx)
    IN  IF r.some THEN [ret |-> r.val.references, panic |-> FALSE]
        ELSE [ret |-> 0, panic |-> TRUE]

\* ResourceSlab::get: [ret, panic]; unwrap panics on None.
ResourceSlab_get(self, idx) ==
    LET r == Slab_get(self, idx)
    IN  IF r.some THEN [ret |-> r.val.wasm, panic |-> FALSE]
        ELSE [ret |-> 0, panic |-> TRUE]

\* Faulty variant of checked_add_1: the sum wraps around.
checked_add_1_wrap(n) == Some((n + 1) % (RefMax + 1))

\* checked_add(1) on the counter: None on overflow.
checked_add_1(n) == IF n + 1 > RefMax THEN None ELSE Some(n + 1)

\* Faulty variant of ResourceSlab_clone: the counter is left as it is.
ResourceSlab_clone_nocount(self, idx) ==
    IF Slab_get(self, idx).some THEN [slab |-> self, panic |-> FALSE]
    ELSE [slab |-> self, panic |-> TRUE]

\* ResourceSlab::clone: [slab, panic].
ResourceSlab_clone(self, idx) ==
    LET r == Slab_get(self, idx)
    IN  IF ~r.some THEN [slab |-> self, panic |-> TRUE]
        ELSE LET sum == checked_add_1(r.val.references)
             IN  IF ~sum.some THEN [slab |-> self, panic |-> TRUE]
                 ELSE [slab |-> Slab_set(self, idx,
                                         Resource(r.val.wasm, sum.val)),
                       panic |-> FALSE]

\* Faulty variant of ResourceSlab_drop: the counter is tested before it
\* is decremented, so the last drop still answers None.
ResourceSlab_drop_testfirst(self, idx) ==
    LET r == Slab_get(self, idx)
    IN  IF ~r.some THEN [slab |-> self, ret |-> None, panic |-> TRUE]
        ELSE IF r.val.references # 0
        THEN [slab |-> Slab_set(self, idx,
                                Resource(r.val.wasm, r.val.references - 1)),
              ret |-> None, panic |-> FALSE]
        ELSE [slab |-> Slab_remove(self, idx).slab,
              ret |-> Some(r.val.wasm), panic |-> FALSE]

\* Faulty variant of ResourceSlab_drop: at count zero the value is
\* returned but the slot is not removed from the Slab.
ResourceSlab_drop_keep(self, idx) ==
    LET r == Slab_get(self, idx)
    IN  IF ~r.some THEN [slab |-> self, ret |-> None, panic |-> TRUE]
        ELSE IF ~(r.val.references > 0)
        THEN [slab |-> self, ret |-> None, panic |-> TRUE]
        ELSE [slab |-> Slab_set(self, idx,
                                Resource(r.val.wasm, r.val.references - 1)),
              ret |-> IF r.val.references - 1 # 0 THEN None
                      ELSE Some(r.val.wasm),
              panic |-> FALSE]

\* ResourceSlab::drop: [slab, ret, panic], ret an Option<u32>.
ResourceSlab_drop(self, idx) ==
    LET r == Slab_get(self, idx)
    IN  IF ~r.some THEN [slab |-> self, ret |-> None, panic |-> TRUE]
        ELSE IF ~(r.val.references > 0)
        THEN [slab |-> self, ret |-> None, panic |-> TRUE]
        ELSE LET dec == Slab_set(self, idx,
                                 Resource(r.val.wasm, r.val.references - 1))
             IN  IF r.val.references - 1 # 0
                 THEN [slab |-> dec, ret |-> None, panic |-> FALSE]
                 ELSE LET rem == Slab_remove(dec, idx)
                      IN  IF rem.ret.some
                          THEN [slab |-> rem.slab,
                                ret |-> Some(rem.ret.val.wasm),
                                panic |-> FALSE]
                          ELSE [slab |-> rem.slab, ret |-> None,
                                panic |-> TRUE]

\* ------------------------------------------------------------------------
\* SLABS and the exported functions
\* ------------------------------------------------------------------------

\* (IndexSlab, ResourceSlab)::default()
Pair_default == [indexes |-> Slab_default, resources |-> Slab_default]

\* Faulty variant of Grow: the registry is resized to id + 2 pairs.
Grow_extra(S, id) ==
    IF Len(S) <= id
    THEN S \o [i \in 1 .. (id + 2 - Len(S)) |-> Pair_default]
    ELSE S

\* Faulty variant of Grow: the resized registry is built anew, of default
\* pairs only.
Grow_fresh(S, id) ==
    IF Len(S) <= id THEN [i \in 1 .. id + 1 |-> Pair_default] ELSE S

\* if slabs.len() <= id { slabs.resize_with(id + 1, Default::default) }
Grow(S, id) ==
    IF Len(S) <= id
    THEN S \o [i \in 1 .. (id + 1 - Len(S)) |-> Pair_default]
    ELSE S

\* Faulty variant of insert_body: the resource goes into the Resource
\* Table of module 0, whatever the module id.
insert_body_shared(S, id, res) ==
    LET r == ResourceSlab_insert(S[1].resources, res)
    IN  IF r.panic
        THEN [slabs |-> [S EXCEPT ![1].resources = r.slab],
              ret |-> 0, panic |-> TRUE]
        ELSE LET i == IndexSlab_insert(S[id + 1].indexes, r.ret)
             IN  [slabs |-> [[S EXCEPT ![1].resources = r.slab]
                                EXCEPT ![id + 1].indexes = i.slab],
                  ret |-> IF i.panic THEN 0 ELSE i.ret,
                  panic |-> i.panic]

\* resource_insert after the growth step: [slabs, ret, panic].
insert_body(S, id, res) ==
    LET pair == S[id + 1]
        r == ResourceSlab_insert(pair.resources, res)
    IN  IF r.panic
        THEN [slabs |-> [S EXCEPT ![id + 1].resources = r.slab],
              ret |-> 0, panic |-> TRUE]
        ELSE LET i == IndexSlab_insert(pair.indexes, r.ret)
             IN  [slabs |-> [S EXCEPT ![id + 1] =
                               [indexes |-> i.slab, resources |-> r.slab]],
                  ret |-> IF i.panic THEN 0 ELSE i.ret,
                  panic |-> i.panic]

\* Faulty variant of get_body: the handle is used as the index into the
\* Resource Table, provided its entry is occupied.
get_body_direct(S, id, idx) ==
    LET pair == S[id + 1]
        res_idx == IndexSlab_get(pair.indexes, idx)
    IN  IF ~res_idx.some THEN [slabs |-> S, ret |-> 0, panic |-> TRUE]
        ELSE LET g == ResourceSlab_get(pair.resources, idx)
             IN  [slabs |-> S, ret |-> g.ret, panic |-> g.panic]

\* resource_get after the growth step.
get_body(S, id, idx) ==
    LET pair == S[id + 1]
        res_idx == IndexSlab_get(pair.indexes, idx)
    IN  IF ~res_idx.some THEN [slabs |-> S, ret |-> 0, panic |-> TRUE]
        ELSE LET g == ResourceSlab_get(pair.resources, res_idx.val)
             IN  [slabs |-> S, ret |-> g.ret, panic |-> g.panic]

\* Faulty variant of clone_body: the counter is incremented but no new
\* handle entry is made; the handle passed in is returned.
clone_body_samehandle(S, id, idx) ==
    LET pair == S[id + 1]
        res_idx == IndexSlab_get(pair.indexes, idx)
    IN  IF ~res_idx.some THEN [slabs |-> S, ret |-> 0, panic |-> TRUE]
        ELSE LET c == ResourceSlab_clone(pair.resources, res_idx.val)
             IN  [slabs |-> [S EXCEPT ![id + 1].resources = c.slab],
                  ret |-> IF c.panic THEN 0 ELSE idx, panic |-> c.panic]

\* resource_clone after the growth step.
clone_body(S, id, idx) ==
    LET pair == S[id + 1]
        res_idx == IndexSlab_get(pair.indexes, idx)
    IN  IF ~res_idx.some THEN [slabs |-> S, ret |-> 0, panic |-> TRUE]
        ELSE LET c == ResourceSlab_clone(pair.resources, res_idx.val)
             IN  IF c.panic
                 THEN [slabs |-> [S EXCEPT ![id + 1].resources = c.slab],
                       ret |-> 0, panic |-> TRUE]
                 ELSE LET i == IndexSlab_insert(pair.indexes, res_idx.val)
                      IN  [slabs |-> [S EXCEPT ![id + 1] =
                                        [indexes |-> i.slab,
                                         resources |-> c.slab]],
                           ret |-> IF i.panic THEN 0 ELSE i.ret,
                           panic |-> i.panic]

\* 1u64 << 32, at the model's width.
StillAlive == 2^ValBits

\* Faulty variant of EncodeDrop: the flag is set in bit 31 of the 64,
\* where it collides with the value.
EncodeDrop_lowflag(d) == IF d.some THEN d.val ELSE 2^(ValBits - 1)

\* The match at the end of resource_remove: Option<u32> to u64.
EncodeDrop(d) == IF d.some THEN d.val ELSE StillAlive

\* Faulty variant of remove_body: the handle entry is read, not removed.
remove_body_get(S, id, idx) ==
    LET pair == S[id + 1]
        res_idx == IndexSlab_get(pair.indexes, idx)
    IN  IF ~res_idx.some THEN [slabs |-> S, ret |-> 0, panic |-> TRUE]
        ELSE LET d == ResourceSlab_drop(pair.resources, res_idx.val)
             IN  [slabs |-> [S EXCEPT ![id + 1].resources = d.slab],
                  ret |-> IF d.panic THEN 0 ELSE EncodeDrop(d.ret),
                  panic |-> d.panic]

\* resource_remove after the growth step.
remove_body(S, id, idx) ==
    LET pair == S[id + 1]
        rem == IndexSlab_remove(pair.indexes, idx)
    IN  IF ~rem.ret.some
        THEN [slabs |-> [S EXCEPT ![id + 1].indexes = rem.slab],
              ret |-> 0, panic |-> TRUE]
        ELSE LET d == ResourceSlab_drop(pair.resources, rem.ret.val)
             IN  [slabs |-> [S EXCEPT ![id + 1] =
                               [indexes |-> rem.slab, resources |-> d.slab]],
                  ret |-> IF d.panic THEN 0 ELSE EncodeDrop(d.ret),
                  panic |-> d.panic]

resource_insert(S, id, res) == insert_body(Grow(S, id), id, res)

resource_get(S, id, idx) == get_body(Grow(S, id), id, idx)

resource_clone(S, id, idx) == clone_body(Grow(S, id), id, idx)

resource_remove(S, id, idx) == remove_body(Grow(S, id), id, idx)

\* ------------------------------------------------------------------------
\* State
\* ------------------------------------------------------------------------

VARIABLES
    slabs,      \* SLABS: the registry, a sequence of pairs
    aborted,    \* the process has panicked
    last,       \* the last boundary call and what it returned
    groups,     \* callers' view: the handles they hold, per resource
    scen,       \* how far the calls so far follow Script (-1: they do not)
    slab,       \* a Slab<T> used on its own
    held,       \* the items inserted into slab and not removed, by index
    slabLast,   \* the last call on slab and what it returned
    freed,      \* the indices removed from slab and not handed out again
                \* since, in the order they were removed
    peak,       \* the largest number of items slab has held at one time
    pc,         \* per thread: where it is in its boundary call
    lock,       \* the Mutex around SLABS: the thread holding it, or 0
    call,       \* per thread: the call it is making or has made
    ret,        \* per thread: what its last call returned
    ncalls,     \* boundary calls begun by the threads
    seqSlabs,   \* the registry after the same calls, one whole call at a
                \* time in the order the lock was acquired
    exp         \* per thread: the outcome of its call in that sequence

regVars == <<slabs, aborted, last, groups, scen>>

slabVars == <<slab, held, slabLast, freed, peak>>

concVars == <<pc, lock, call, ret, ncalls, seqSlabs, exp>>

vars == <<slabs, aborted, last, groups, scen, slab, held, slabLast,
          freed, peak, pc, lock, call, ret, ncalls, seqSlabs, exp>>

Threads == 1 .. NumThreads

Call(op, id, arg) == [op |-> op, id |-> id, arg |-> arg]

NoCall == [op |-> "none", id |-> 0, arg |-> 0, ret |-> 0]

\* The calls of the reference scenario, in order.
Script ==
    << Call("insert", 0, 42), Call("clone", 0, 0), Call("get", 0, 1),
       Call("remove", 0, 0), Call("remove", 0, 1) >>

RECURSIVE SumSlots(_, _)
SumSlots(S, n) ==
    IF n = 0 THEN 0 ELSE Len(S[n].indexes.storage) + SumSlots(S, n - 1)

\* Handle slots allocated over all modules.
TotalSlots(S) == SumSlots(S, Len(S))

RECURSIVE SumResources(_, _)
SumResources(S, n) ==
    IF n = 0 THEN 0
    ELSE Len(S[n].resources.storage) + SumResources(S, n - 1)

\* Resource slots allocated over all modules.
TotalResources(S) == SumResources(S, Len(S))

\* The callers stop allocating at the bounds of the model.
WithinBounds(S) ==
    TotalSlots(S) <= MaxSlots /\ TotalResources(S) <= MaxResources

\* The handle arguments callers pass for module id: every slot of its
\* handle table (Full or Empty) and the first number past its end, which
\* stands for every out-of-range handle (Vec::get answers None for all).
HandleArgs(S, id) ==
    0 .. (IF id < Len(S) THEN Len(S[id + 1].indexes.storage) ELSE 0)

\* ------------------------------------------------------------------------
\* The callers' view of what they hold
\* ------------------------------------------------------------------------

GroupOf(G, id, h) == {g \in G : g.id = id /\ h \in g.hs}

Held(G, id, h) == GroupOf(G, id, h) # {}

GroupsAfter(G, c, out) ==
    IF out.panic THEN G
    ELSE IF c.op = "insert"
    THEN G \cup {[id |-> c.id, hs |-> {out.ret}, val |-> c.arg]}
    ELSE IF c.op = "clone"
    THEN {IF g.id = c.id /\ c.arg \in g.hs
          THEN [g EXCEPT !.hs = g.hs \cup {out.ret}] ELSE g : g \in G}
    ELSE IF c.op = "remove"
    THEN {g \in {IF h.id = c.id THEN [h EXCEPT !.hs = h.hs \ {c.arg}]
                 ELSE h : h \in G} : g.hs # {}}
    ELSE G

ScenAfter(n, c) ==
    IF n >= 0 /\ n < Len(Script) /\ c = Script[n + 1] THEN n + 1 ELSE -1

\* What is recorded of call c with outcome out: the call and the value it
\* returned. A panic on a handle no caller holds is a protocol violation;
\* of such a call only the function is recorded (id and arg are -1).
Seen(G, c, out) ==
    IF out.panic /\ c.op # "insert" /\ ~Held(G, c.id, c.arg)
    THEN [op |-> c.op, id |-> -1, arg |-> -1, ret |-> 0]
    ELSE [op |-> c.op, id |-> c.id, arg |-> c.arg,
          ret |-> IF out.panic THEN 0 ELSE out.ret]

\* The exported function call c names, applied to registry S.
Outcome(S, c) ==
    CASE c.op = "insert" -> resource_insert(S, c.id, c.arg)
      [] c.op = "get"    -> resource_get(S, c.id, c.arg)
      [] c.op = "clone"  -> resource_clone(S, c.id, c.arg)
      [] c.op = "remove" -> resource_remove(S, c.id, c.arg)

\* The state before any call.
Start ==
    [slabs |-> <<>>, aborted |-> FALSE, last |-> NoCall, groups |-> {},
     scen |-> 0]

\* The state after call c in state st.
After(st, c) ==
    LET out == Outcome(st.slabs, c)
    IN  [slabs |-> out.slabs,
         aborted |-> out.panic,
         last |-> Seen(st.groups, c, out),
         groups |-> GroupsAfter(st.groups, c, out),
         scen |-> ScenAfter(st.scen, c)]

Now == [slabs |-> slabs, aborted |-> aborted, last |-> last,
        groups |-> groups, scen |-> scen]

Is(st) ==
    /\ slabs = st.slabs
    /\ aborted = st.aborted
    /\ last = st.last
    /\ groups = st.groups
    /\ scen = st.scen

Becomes(st) ==
    /\ slabs' = st.slabs
    /\ aborted' = st.aborted
    /\ last' = st.last
    /\ groups' = st.groups
    /\ scen' = st.scen

\* ------------------------------------------------------------------------
\* Initial values of the parts a specification does not use
\* ------------------------------------------------------------------------

NoSlabCall == [op |-> "none", arg |-> 0, ret |-> None]

SlabUnused ==
    /\ slab = Slab_default
    /\ held = <<>>
    /\ slabLast = NoSlabCall
    /\ freed = <<>>
    /\ peak = 0

NoOutcome == [ret |-> 0, panic |-> FALSE]

ThreadsIdle ==
    /\ pc = [t \in Threads |-> "idle"]
    /\ lock = 0
    /\ call = [t \in Threads |-> Call("none", 0, 0)]
    /\ ret = [t \in Threads |-> 0]
    /\ ncalls = 0
    /\ seqSlabs = <<>>
    /\ exp = [t \in Threads |-> NoOutcome]

\* ------------------------------------------------------------------------
\* Sequential callers: one boundary call per step
\* ------------------------------------------------------------------------

Init == Is(Start) /\ SlabUnused /\ ThreadsIdle

\* One whole call c. A panic ends the process: no call follows it.
Step(c) ==
    /\ ~aborted
    /\ LET st == After(Now, c)
       IN  /\ WithinBounds(st.slabs)
           /\ Becomes(st)
    /\ UNCHANGED <<slabVars, concVars>>

Insert ==
    \E id \in ModuleIds, res \in Values : Step(Call("insert", id, res))

Get ==
    \E id \in ModuleIds : \E idx \in HandleArgs(slabs, id) :
        Step(Call("get", id, idx))

Clone ==
    \E id \in ModuleIds : \E idx \in HandleArgs(slabs, id) :
        Step(Call("clone", id, idx))

Remove ==
    \E id \in ModuleIds : \E idx \in HandleArgs(slabs, id) :
        Step(Call("remove", id, idx))

Next == Insert \/ Get \/ Clone \/ Remove

Spec == Init /\ [][Next]_vars

\* ------------------------------------------------------------------------
\* resource_remove over every underlying value
\* ------------------------------------------------------------------------

RECURSIVE AfterAll(_, _)
AfterAll(st, calls) ==
    IF calls = <<>> THEN st
    ELSE AfterAll(After(st, Head(calls)), Tail(calls))

\* The registry after insert(0, v) and n clones of the handle returned,
\* for every value v of the width and every n the slots allow.
InitRemove ==
    /\ \E v \in 0 .. U32Max, n \in 0 .. MaxSlots - 1 :
           Is(AfterAll(Start, <<Call("insert", 0, v)>> \o
                              [i \in 1 .. n |-> Call("clone", 0, 0)]))
    /\ SlabUnused
    /\ ThreadsIdle

SpecRemove == InitRemove /\ [][Remove]_vars

\* ------------------------------------------------------------------------
\* resource_clone up to the largest reference count
\* ------------------------------------------------------------------------

\* The registry after insert(0, v), for every value v of the width.
InitClone ==
    /\ \E v \in 0 .. U32Max : Is(After(Start, Call("insert", 0, v)))
    /\ SlabUnused
    /\ ThreadsIdle

\* A clone in module 0. The callers clone for as long as the function
\* returns: the handle table grows until the counter is at its largest.
CloneOn0 ==
    \E idx \in HandleArgs(slabs, 0) :
        /\ ~aborted
        /\ Becomes(After(Now, Call("clone", 0, idx)))
        /\ UNCHANGED <<slabVars, concVars>>

SpecClone == InitClone /\ [][CloneOn0]_vars

\* ------------------------------------------------------------------------
\* A Slab<T> on its own
\* ------------------------------------------------------------------------

InitSlab ==
    /\ Is(Start)
    /\ SlabUnused
    /\ ThreadsIdle

\* slab.insert(item)
SlabInsert ==
    \E item \in Values :
        LET r == Slab_insert(slab, item)
        IN  /\ ~aborted
            /\ Len(r.slab.storage) <= MaxSlabLen
            /\ slab' = r.slab
            /\ aborted' = r.panic
            /\ slabLast' = [op |-> "insert", arg |-> item,
                            ret |-> Some(r.ret)]
            /\ held' = [i \in DOMAIN held \cup {r.ret} |->
                           IF i = r.ret THEN item ELSE held[i]]
            /\ freed' = SelectSeq(freed, LAMBDA i : i # r.ret)
            /\ peak' = IF Cardinality(DOMAIN held \cup {r.ret}) > peak
                       THEN Cardinality(DOMAIN held \cup {r.ret})
                       ELSE peak
            /\ UNCHANGED <<slabs, last, groups, scen, concVars>>

\* slab.get(idx), for every slot and the first index out of range
SlabGet ==
    \E idx \in 0 .. Len(slab.storage) :
        /\ ~aborted
        /\ slabLast' = [op |-> "get", arg |-> idx, ret |-> Slab_get(slab, idx)]
        /\ UNCHANGED <<slab, held, freed, peak, regVars, concVars>>

\* slab.remove(idx), for every slot and the first index out of range
SlabRemove ==
    \E idx \in 0 .. Len(slab.storage) :
        LET r == Slab_remove(slab, idx)
        IN  /\ ~aborted
            /\ slab' = r.slab
            /\ slabLast' = [op |-> "remove", arg |-> idx, ret |-> r.ret]
            /\ held' = [i \in DOMAIN held \ {idx} |-> held[i]]
            /\ freed' = IF idx \in DOMAIN held THEN Append(freed, idx)
                        ELSE freed
            /\ UNCHANGED peak
            /\ UNCHANGED <<regVars, concVars>>

NextSlab == SlabInsert \/ SlabGet \/ SlabRemove

SpecSlab == InitSlab /\ [][NextSlab]_vars

\* ------------------------------------------------------------------------
\* Threads calling the boundary concurrently
\* ------------------------------------------------------------------------
\* Each exported function runs as: SLABS.lock().unwrap(); the growth step;
\* the rest of the body; the MutexGuard is dropped as the function returns.
\* A panic aborts the process with the lock held, so the Mutex is never
\* seen poisoned.

\* Faulty variant of LockFree: lock() does not wait.
LockFree_nowait == TRUE

\* SLABS.lock() goes through when no thread holds the Mutex.
LockFree == lock = 0

\* Faulty variant of Dropped: the guard is leaked and the Mutex stays
\* locked by thread t.
Dropped_leaked(t) == t

\* The Mutex after thread t's MutexGuard is dropped.
Dropped(t) == 0

\* The part of call c after the growth step.
Body_of(S, c) ==
    CASE c.op = "insert" -> insert_body(S, c.id, c.arg)
      [] c.op = "get"    -> get_body(S, c.id, c.arg)
      [] c.op = "clone"  -> clone_body(S, c.id, c.arg)
      [] c.op = "remove" -> remove_body(S, c.id, c.arg)

\* The calls a thread may make now.
CallsNow ==
    {Call("insert", id, res) : id \in ModuleIds, res \in Values}
    \cup UNION {{Call(op, id, idx) : idx \in HandleArgs(slabs, id)} :
                  op \in {"get", "clone", "remove"}, id \in ModuleIds}

InitConc == Is(Start) /\ SlabUnused /\ ThreadsIdle

\* Thread t calls an exported function.
Begin(t) ==
    /\ ~aborted
    /\ pc[t] = "idle"
    /\ ncalls < MaxCalls
    /\ \E c \in CallsNow : call' = [call EXCEPT ![t] = c]
    /\ pc' = [pc EXCEPT ![t] = "waiting"]
    /\ ret' = [ret EXCEPT ![t] = 0]
    /\ exp' = [exp EXCEPT ![t] = NoOutcome]
    /\ ncalls' = ncalls + 1
    /\ UNCHANGED <<regVars, slabVars, lock, seqSlabs>>

\* let mut slabs = SLABS.lock().unwrap();
Acquire(t) ==
    /\ ~aborted
    /\ pc[t] = "waiting"
    /\ LockFree
    /\ lock' = t
    /\ pc' = [pc EXCEPT ![t] = "locked"]
    /\ \E out \in {Outcome(seqSlabs, call[t])} :
           /\ seqSlabs' = out.slabs
           /\ exp' = [exp EXCEPT ![t] =
                        [ret |-> IF out.panic THEN 0 ELSE out.ret,
                         panic |-> out.panic]]
    /\ UNCHANGED <<regVars, slabVars, call, ret, ncalls>>

\* if slabs.len() <= id { slabs.resize_with(id + 1, Default::default) }
GrowStep(t) ==
    /\ ~aborted
    /\ pc[t] = "locked"
    /\ slabs' = Grow(slabs, call[t].id)
    /\ pc' = [pc EXCEPT ![t] = "grown"]
    /\ UNCHANGED <<aborted, last, groups, scen, slabVars, lock, call, ret,
                   ncalls, seqSlabs, exp>>

\* The rest of the function: it returns, dropping the guard, or panics.
Body(t) ==
    /\ ~aborted
    /\ pc[t] = "grown"
    /\ \E out \in {Body_of(slabs, call[t])} :
           /\ slabs' = out.slabs
           /\ aborted' = out.panic
           /\ IF out.panic
              THEN /\ pc' = [pc EXCEPT ![t] = "panicked"]
                   /\ UNCHANGED <<ret, lock>>
              ELSE /\ pc' = [pc EXCEPT ![t] = "idle"]
                   /\ ret' = [ret EXCEPT ![t] = out.ret]
                   /\ lock' = Dropped(t)
    /\ UNCHANGED <<last, groups, scen, slabVars, call, ncalls, seqSlabs, exp>>

NextConc ==
    \E t \in Threads : Begin(t) \/ Acquire(t) \/ GrowStep(t) \/ Body(t)

SpecConc == InitConc /\ [][NextConc]_vars

\* What thread t does once it has made its call.
Run(t) == Acquire(t) \/ GrowStep(t) \/ Body(t)

\* The scheduler lets every thread run: a thread that can take a step of
\* its call for good (the Mutex staying free, if it waits for it) takes it.
FairSpecConc == SpecConc /\ \A t \in Threads : WF_vars(Run(t))

\* ------------------------------------------------------------------------
\* Observations used by the properties
\* ------------------------------------------------------------------------

\* The ResourceIndex handle h of module id resolves to, as an Option.
Resolve(S, id, h) ==
    IF id < Len(S) THEN IndexSlab_get(S[id + 1].indexes, h) ELSE None

\* The Resource in slot r of module id's Resource Table, as an Option.
ResourceAt(S, id, r) ==
    IF id < Len(S) THEN Slab_get(S[id + 1].resources, r) ELSE None

\* The reference count of slot r (-1 when the slot holds no resource).
RefCount(S, id, r) ==
    IF ResourceAt(S, id, r).some THEN ResourceAt(S, id, r).val.references
    ELSE -1

\* The occupied handle entries of module id that point at slot r.
HandlesTo(S, id, r) ==
    {h \in 0 .. Len(S[id + 1].indexes.storage) - 1 :
        Resolve(S, id, h) = Some(r)}

\* The handles of module id that resolve.
LiveHandles(S, id) ==
    IF id < Len(S)
    THEN {h \in 0 .. Len(S[id + 1].indexes.storage) - 1 :
            Resolve(S, id, h).some}
    ELSE {}

\* The occupied slots of module id's Resource Table.
LiveResources(S, id) ==
    IF id < Len(S)
    THEN {r \in 0 .. Len(S[id + 1].resources.storage) - 1 :
            ResourceAt(S, id, r).some}
    ELSE {}

\* The indices of the Empty entries of a Slab.
EmptySlots(self) ==
    {i \in 0 .. Len(self.storage) - 1 : self.storage[i + 1].tag = "Empty"}

\* The free list of a Slab from index i on: the indices met by following
\* the next fields, up to the first index that is out of range or not
\* Empty, n steps at most.
RECURSIVE FreeList(_, _, _)
FreeList(self, i, n) ==
    IF n = 0 \/ i < 0 \/ i >= Len(self.storage) THEN <<>>
    ELSE IF self.storage[i + 1].tag # "Empty" THEN <<i>>
    ELSE <<i>> \o FreeList(self, self.storage[i + 1].next, n - 1)

\* Where that walk stops.
RECURSIVE FreeEnd(_, _, _)
FreeEnd(self, i, n) ==
    IF n = 0 \/ i < 0 \/ i >= Len(self.storage) THEN i
    ELSE IF self.storage[i + 1].tag # "Empty" THEN i
    ELSE FreeEnd(self, self.storage[i + 1].next, n - 1)

\* The free list is well formed: from the cursor it visits every Empty
\* entry exactly once, no Full entry, and ends at the storage length.
FreeListOk(self) ==
    LET path == FreeList(self, self.next, Len(self.storage) + 1)
    IN  /\ {path[k] : k \in DOMAIN path} = EmptySlots(self)
        /\ Len(path) = Cardinality(EmptySlots(self))
        /\ FreeEnd(self, self.next, Len(self.storage) + 1) = Len(self.storage)

\* The step taken is the call of op on handle h of module id.
Called(op, id, h) == last'.op = op /\ last'.id = id /\ last'.arg = h

\* The step taken is a call with module id `id`: the one recorded, or, of a
\* call recorded without its arguments (it aborted on a handle no caller
\* holds), one that leaves this registry.
CalledOn(id) ==
    IF last'.id >= 0 THEN last'.id = id
    ELSE /\ aborted'
         /\ \E h \in HandleArgs(slabs, id) :
                /\ ~Held(groups, id, h)
                /\ LET out == Outcome(slabs, Call(last'.op, id, h))
                   IN  out.panic /\ slabs' = out.slabs

\* Registry S with every pair but that of module id B made empty.
Only(S, B) == [i \in 1 .. Len(S) |-> IF i = B + 1 THEN S[i] ELSE Pair_default]

\* ------------------------------------------------------------------------
\* Properties of the sequential callers
\* ------------------------------------------------------------------------

\* C1: in every reachable state, for every module and every occupied
\* Resource Table slot r, the reference count stored in r equals the number
\* of occupied handle entries of that module whose ResourceIndex is r, and
\* every occupied handle entry points at an occupied resource slot.
C1_RefCountIsHandleCount ==
    \A id \in 0 .. Len(slabs) - 1 :
        /\ \A r \in LiveResources(slabs, id) :
               RefCount(slabs, id, r) = Cardinality(HandlesTo(slabs, id, r))
        /\ \A h \in LiveHandles(slabs, id) :
               Resolve(slabs, id, h).val \in LiveResources(slabs, id)

\* A resource with two handles in one module and one with a single handle
\* in another.
C1_Witness ==
    /\ ~aborted
    /\ \E id \in 0 .. Len(slabs) - 1 : \E r \in LiveResources(slabs, id) :
           RefCount(slabs, id, r) = 2
    /\ \E id \in 0 .. Len(slabs) - 1 : \E r \in LiveResources(slabs, id) :
           RefCount(slabs, id, r) = 1

\* C2: for a resource with N outstanding handles, each remove of one of
\* them returns without abort; it reports "still referenced" while other
\* handles remain (the first N-1 removals) and "released" with the value
\* originally passed to insert when it is the last one (the Nth).
C2_RemoveCountsDown ==
    [][\A g \in groups : \A h \in g.hs :
          Called("remove", g.id, h) =>
              /\ ~aborted'
              /\ last'.ret = IF Cardinality(g.hs) > 1 THEN StillAlive
                             ELSE g.val]_vars

\* A remove that reported "still referenced" for a resource of three
\* handles: two remain.
C2_Witness ==
    /\ last.op = "remove" /\ ~aborted /\ last.ret = StillAlive
    /\ \E g \in groups : g.id = last.id /\ Cardinality(g.hs) = 2

\* C3: a get of the handle an insert has just returned, in the same module
\* (covered by the registry before the insert or not), returns the inserted
\* value and does not abort; nor does the insert.
C3_InsertThenGet ==
    /\ [](last.op = "insert" => ~aborted)
    /\ [][(last.op = "insert" /\ Called("get", last.id, last.ret)) =>
              (~aborted' /\ last'.ret = last.arg)]_vars

\* A get that returned the inserted value in the last module while module 0
\* was never used: the insert into that module grew the registry past it.
C3_Witness ==
    /\ last.op = "get" /\ ~aborted /\ last.id = MaxId /\ last.ret = 42
    /\ Len(slabs) = MaxId + 1
    /\ slabs[1] = Pair_default

\* What C4 says of a step that clones handle h of module id, resolving to
\* slot r: the call returns, the count of r goes up by exactly one, the new
\* handle differs from every handle live before, both handles resolve to r,
\* and removing either one leaves the other resolving to the same value
\* with the count down by exactly one.
CloneEffect(id, h, r) ==
    LET h2 == last'.ret
        v == ResourceAt(slabs, id, r).val.wasm
        rmH == resource_remove(slabs', id, h)
        rmH2 == resource_remove(slabs', id, h2)
    IN  /\ ~aborted'
        /\ RefCount(slabs', id, r) = RefCount(slabs, id, r) + 1
        /\ h2 # h
        /\ h2 \notin LiveHandles(slabs, id)
        /\ Resolve(slabs', id, h2) = Some(r)
        /\ Resolve(slabs', id, h) = Some(r)
        /\ ~rmH.panic
        /\ resource_get(rmH.slabs, id, h2) =
               [slabs |-> rmH.slabs, ret |-> v, panic |-> FALSE]
        /\ RefCount(rmH.slabs, id, r) = RefCount(slabs', id, r) - 1
        /\ ~rmH2.panic
        /\ resource_get(rmH2.slabs, id, h) =
               [slabs |-> rmH2.slabs, ret |-> v, panic |-> FALSE]
        /\ RefCount(rmH2.slabs, id, r) = RefCount(slabs', id, r) - 1

\* C4 as stated: every clone of a live handle has the effect above.
C4_CloneAlways ==
    [][\A id \in ModuleIds : \A h \in LiveHandles(slabs, id) :
          Called("clone", id, h) =>
              CloneEffect(id, h, Resolve(slabs, id, h).val)]_vars

\* C4, amended: a clone of a live handle whose resource has a reference
\* count below the largest the counter holds has the effect above.
C4_CloneBelowMax ==
    [][\A id \in ModuleIds : \A h \in LiveHandles(slabs, id) :
          (/\ Called("clone", id, h)
           /\ RefCount(slabs, id, Resolve(slabs, id, h).val) < RefMax) =>
              CloneEffect(id, h, Resolve(slabs, id, h).val)]_vars

\* A clone has returned a second handle to a resource.
C4_Witness ==
    /\ last.op = "clone" /\ ~aborted
    /\ Resolve(slabs, last.id, last.ret) = Resolve(slabs, last.id, last.arg)
    /\ last.ret # last.arg
    /\ RefCount(slabs, last.id, Resolve(slabs, last.id, last.ret).val) = 2

\* C8: whenever get, clone or remove aborts, the registry (its length and
\* every module's two tables) is what it was before the call.
C8_AbortChangesNothing ==
    [][(aborted' /\ last'.op \in {"get", "clone", "remove"}) =>
           slabs' = slabs]_vars

\* C10: from the empty registry, insert(0, 42), clone(0, 0), get(0, 1),
\* remove(0, 0), remove(0, 1) return handle 0, handle 1, 42, "still
\* referenced" and "released" with 42, and then module 0 has no live handle
\* and no live resource.
C10_Scenario ==
    /\ scen > 0 => (~aborted /\ last.op = Script[scen].op)
    /\ scen = 1 => last.ret = 0
    /\ scen = 2 => last.ret = 1
    /\ scen = 3 => last.ret = 42
    /\ scen = 4 => last.ret = StillAlive
    /\ scen = 5 => /\ last.ret = 42
                   /\ LiveHandles(slabs, 0) = {}
                   /\ LiveResources(slabs, 0) = {}

\* The five calls of the scenario have been made.
C10_Witness == scen = Len(Script) /\ Len(slabs) = 1

\* C9: the result of a remove that returns encodes the outcome: when the
\* resource was released the upper half is zero and the lower half is its
\* value; when it is still referenced the result is the flag 1 << 32 alone
\* (here 1 << ValBits); so the upper half is zero exactly when the resource
\* was released. Checked for every value of the width.
C9_RemoveEncoding ==
    [][\A id \in ModuleIds : \A h \in LiveHandles(slabs, id) :
          (Called("remove", id, h) /\ ~aborted') =>
              LET r == Resolve(slabs, id, h).val
                  v == ResourceAt(slabs, id, r).val.wasm
                  released == ~ResourceAt(slabs', id, r).some
                  hi == last'.ret \div (2^ValBits)
                  lo == last'.ret % (2^ValBits)
              IN  /\ released => (hi = 0 /\ lo = v)
                  /\ ~released => (last'.ret = 2^ValBits /\ hi = 1)
                  /\ (hi = 0) <=> released]_vars

\* The last handle of the largest value was removed after another handle
\* of the same resource had been: the result is the value itself.
C9_Witness ==
    /\ last.op = "remove" /\ ~aborted /\ last.ret = U32Max
    /\ Len(slabs[1].indexes.storage) > 1
    /\ LiveResources(slabs, 0) = {}

\* C11: an insert into a module id the registry does not cover yet
\* (id >= its length L) returns handle 0 without abort and leaves a
\* registry of exactly id + 1 pairs: the L old pairs as they were, the pairs
\* of ids L .. id - 1 empty, and module id holding the one handle, which
\* resolves to the inserted value. In particular insert(5, 7) on the empty
\* registry gives a registry covering ids 0 .. 5 and handle 0.
C11_InsertGrows ==
    /\ [][\A id \in ModuleIds, v \in Values :
              (Called("insert", id, v) /\ id >= Len(slabs)) =>
                  /\ ~aborted'
                  /\ last'.ret = 0
                  /\ Len(slabs') = id + 1
                  /\ \A i \in 1 .. Len(slabs) : slabs'[i] = slabs[i]
                  /\ \A i \in Len(slabs) + 1 .. id : slabs'[i] = Pair_default
                  /\ LiveHandles(slabs', id) = {0}
                  /\ resource_get(slabs', id, 0) =
                         [slabs |-> slabs', ret |-> v, panic |-> FALSE]]_vars
    /\ [](LET out == resource_insert(<<>>, 5, 7)
          IN  /\ ~out.panic /\ out.ret = 0
              /\ Len(out.slabs) = 6
              /\ \A i \in 1 .. 5 : out.slabs[i] = Pair_default
              /\ resource_get(out.slabs, 5, 0).ret = 7)

\* An insert into the last module id was the first call: the registry grew
\* from empty past module 0, whose pair is empty, and handle 0 was returned.
C11_Witness ==
    /\ last.op = "insert" /\ ~aborted /\ last.id = MaxId /\ last.ret = 0
    /\ Len(slabs) = MaxId + 1
    /\ slabs[1] = Pair_default
    /\ LiveHandles(slabs, MaxId) = {0}

\* C15: the registry only grows, and only as far as needed. A call with
\* module id N, returning or aborting, leaves a registry of length
\* max(length before, N + 1), so a call on a covered id keeps the length;
\* the length never decreases, and no pair is removed or replaced by a
\* fresh empty pair.
C15_GrowthMonotone ==
    /\ [][IF last'.id >= 0
          THEN Len(slabs') = IF Len(slabs) > last'.id + 1 THEN Len(slabs)
                             ELSE last'.id + 1
          ELSE \A id \in ModuleIds :
                   CalledOn(id) =>
                       Len(slabs') = IF Len(slabs) > id + 1 THEN Len(slabs)
                                     ELSE id + 1]_vars
    /\ [][/\ Len(slabs') >= Len(slabs)
          /\ \A i \in 1 .. Len(slabs) :
                 slabs[i] # Pair_default => slabs'[i] # Pair_default]_vars

\* A remove in module 0 returned with the registry covering the last
\* module id, whose pair is in use: the length is as it was.
C15_Witness ==
    /\ last.op = "remove" /\ ~aborted /\ last.id = 0
    /\ Len(slabs) = MaxId + 1
    /\ LiveHandles(slabs, MaxId) # {}

\* C16: the pair of a module id the registry covers changes only in a
\* call with that module id (a call with module id A leaves the pair of
\* every other id B as it was); and what a call with module id B returns,
\* whether it aborts, and the pair of B it leaves are what they would be
\* were every other pair empty: they depend on no call made on another id.
C16_ModuleIsolation ==
    /\ [][\A B \in 0 .. Len(slabs) - 1 :
              slabs'[B + 1] # slabs[B + 1] => CalledOn(B)]_vars
    /\ [][last'.id >= 0 =>
              LET B == last'.id
                  o == Outcome(Only(slabs, B), Call(last'.op, B, last'.arg))
              IN  /\ aborted' = o.panic
                  /\ last'.ret = IF o.panic THEN 0 ELSE o.ret
                  /\ slabs'[B + 1] = o.slabs[B + 1]]_vars

\* Handle 0 is live in two modules and resolves to a different value in
\* each; the last call removed another handle of the last module.
C16_Witness ==
    /\ last.op = "remove" /\ ~aborted /\ last.id = MaxId /\ last.arg # 0
    /\ resource_get(slabs, 0, 0).ret = 0 /\ ~resource_get(slabs, 0, 0).panic
    /\ resource_get(slabs, MaxId, 0).ret = 42
    /\ ~resource_get(slabs, MaxId, 0).panic

\* C17: every occupied Resource Table slot has a reference count of at
\* least 1. A slot is recycled in exactly the steps that take its count to
\* zero: a remove that returns, of a handle whose resource has count 1,
\* recycles that slot and returns its value; one whose resource has a
\* higher count recycles nothing, lowers the count by one and returns
\* "still referenced"; no other step recycles a slot. The remove of a live
\* handle never aborts: drop is never called on a count of 0.
C17_CountAtLeastOne ==
    /\ [](\A id \in 0 .. Len(slabs) - 1 :
              /\ \A r \in LiveResources(slabs, id) :
                     RefCount(slabs, id, r) >= 1
              /\ \A h \in LiveHandles(slabs, id) :
                     ~resource_remove(slabs, id, h).panic)
    /\ [][\A id \in 0 .. Len(slabs) - 1 :
              LET gone == LiveResources(slabs, id) \ LiveResources(slabs', id)
              IN  IF last'.op = "remove" /\ ~aborted' /\ last'.id = id
                  THEN LET r == Resolve(slabs, id, last'.arg).val
                       IN  IF RefCount(slabs, id, r) = 1
                           THEN /\ gone = {r}
                                /\ last'.ret =
                                       ResourceAt(slabs, id, r).val.wasm
                           ELSE /\ gone = {}
                                /\ last'.ret = StillAlive
                                /\ RefCount(slabs', id, r) =
                                       RefCount(slabs, id, r) - 1
                  ELSE gone = {}]_vars

\* A remove has recycled one of the two resource slots of a module; the
\* other is still occupied, with two handles.
C17_Witness ==
    /\ last.op = "remove" /\ ~aborted /\ last.ret # StillAlive
    /\ Len(slabs[last.id + 1].resources.storage) = 2
    /\ \E r \in LiveResources(slabs, last.id) :
           /\ LiveResources(slabs, last.id) = {r}
           /\ RefCount(slabs, last.id, r) = 2

\* C18: a clone of a live handle whose resource has the largest count the
\* counter holds aborts and leaves the registry as it was: the count does
\* not wrap and no handle entry is made. No clone, returning or aborting,
\* lowers a count or leaves a count of 0, and no count exceeds the largest.
C18_CloneOverflowAborts ==
    /\ [][\A id \in ModuleIds : \A h \in LiveHandles(slabs, id) :
              (/\ Called("clone", id, h)
               /\ RefCount(slabs, id, Resolve(slabs, id, h).val) = RefMax) =>
                  (aborted' /\ slabs' = slabs)]_vars
    /\ [][last'.op = "clone" =>
              \A id \in 0 .. Len(slabs) - 1 :
                  \A r \in LiveResources(slabs, id) :
                      /\ RefCount(slabs', id, r) >= RefCount(slabs, id, r)
                      /\ RefCount(slabs', id, r) >= 1]_vars
    /\ [](\A id \in 0 .. Len(slabs) - 1 :
              \A r \in LiveResources(slabs, id) :
                  RefCount(slabs, id, r) <= RefMax)

\* A clone aborted on a resource that had as many handles as the counter
\* can count; they are all still live.
C18_Witness ==
    /\ aborted /\ last.op = "clone" /\ last.id >= 0
    /\ Resolve(slabs, last.id, last.arg).some
    /\ RefCount(slabs, last.id, Resolve(slabs, last.id, last.arg).val)
           = RefMax
    /\ Cardinality(LiveHandles(slabs, last.id)) = RefMax

\* The registry S with value v in place of the value of resource slot r of
\* module id.
WithValue(S, id, r, v) ==
    [S EXCEPT ![id + 1].resources.storage[r + 1].item.wasm = v]

\* C19: a handle h returned by insert(m, v1) and removed at once is handed
\* out again by the next insert(m, v2), and the registry is then what it
\* was while h stood for v1, but for the value: nothing in it tells the
\* handle removed from the one inserted. So get(m, h), clone(m, h) and
\* remove(m, h) by a holder of the removed handle do not abort and act on
\* v2.
C19_StaleHandleReuse ==
    (last.op = "insert" /\ ~aborted) =>
        LET m == last.id
            h == last.ret
            r == Resolve(slabs, m, h).val
            rm == resource_remove(slabs, m, h)
        IN  /\ ~rm.panic /\ rm.ret = last.arg
            /\ \A v2 \in Values :
                   LET ins == resource_insert(rm.slabs, m, v2)
                       g == resource_get(ins.slabs, m, h)
                       c == resource_clone(ins.slabs, m, h)
                       d == resource_remove(ins.slabs, m, h)
                   IN  /\ ~ins.panic /\ ins.ret = h
                       /\ ins.slabs = WithValue(slabs, m, r, v2)
                       /\ ~g.panic /\ g.ret = v2
                       /\ ~c.panic /\ c.ret # h
                       /\ resource_get(c.slabs, m, c.ret).ret = v2
                       /\ RefCount(c.slabs, m, r) = 2
                       /\ ~d.panic /\ d.ret = v2
                       /\ ~ResourceAt(d.slabs, m, r).some

\* An insert has handed out handle 0 again, for the value 42, while a
\* handle allocated after it is live: 0 had been returned before and
\* removed, and get on it now returns 42.
C19_Witness ==
    /\ last.op = "insert" /\ ~aborted /\ last.ret = 0 /\ last.arg = 42
    /\ 1 \in LiveHandles(slabs, last.id)
    /\ resource_get(slabs, last.id, 0).ret = 42

\* C20: a handle that insert(m, v) returned, or a clone of such a handle,
\* and that has not been removed since, stands for v whatever calls were
\* made in between on other handles and other modules: in every reachable
\* state get on it returns v without abort, and the get steps taken on it
\* do so and leave every table and every count as they were.
C20_ValueStable ==
    /\ [](\A g \in groups : \A h \in g.hs :
              resource_get(slabs, g.id, h) =
                  [slabs |-> slabs, ret |-> g.val, panic |-> FALSE])
    /\ [][\A g \in groups : \A h \in g.hs :
              Called("get", g.id, h) =>
                  (~aborted' /\ last'.ret = g.val /\ slabs' = slabs)]_vars

\* A get on a handle made by clone returned the inserted value after
\* another resource of the module had been removed and its slot recycled.
C20_Witness ==
    /\ last.op = "get" /\ ~aborted /\ last.ret = 42 /\ last.arg # 0
    /\ \E g \in groups :
           g.id = last.id /\ last.arg \in g.hs /\ Cardinality(g.hs) = 2
    /\ EmptySlots(slabs[last.id + 1].resources) # {}

\* ------------------------------------------------------------------------
\* Properties of the Slab on its own
\* ------------------------------------------------------------------------

\* C5: insert never returns the index of an item that was inserted and not
\* removed since; so every such item is still the one stored at its index
\* (no two live items share a slot), and an index handed out before is
\* returned again only after a remove of that index.
C5_NoSharedSlot ==
    /\ [](\A i \in DOMAIN held : Slab_get(slab, i) = Some(held[i]))
    /\ [][slabLast'.op = "insert" =>
              slabLast'.ret.val \notin DOMAIN held]_vars

\* An insert reused an index that had been handed out and removed, while
\* another item is live.
C5_Witness ==
    /\ slabLast.op = "insert" /\ ~aborted
    /\ slabLast.ret.val < Len(slab.storage) - 1
    /\ Cardinality(DOMAIN held) = 2

\* C12: after any inserts and removes (of an occupied, an Empty or an
\* out-of-range index) the free list is well formed: following the cursor
\* and the next fields visits every Empty entry exactly once and no Full
\* one and ends at the storage length, and the cursor is the storage length
\* exactly when no entry is Empty. So insert never panics (the entry it
\* overwrites is Empty), and a remove of an Empty or out-of-range index
\* returns None and changes neither the storage nor the cursor.
C12_FreeList ==
    /\ [](FreeListOk(slab))
    /\ []((slab.next = Len(slab.storage)) <=> (EmptySlots(slab) = {}))
    /\ [](~aborted)
    /\ [][slabLast'.op = "insert" =>
              /\ slab.next \in EmptySlots(slab) \cup {Len(slab.storage)}
              /\ slabLast'.ret = Some(slab.next)]_vars
    /\ [][(/\ slabLast'.op = "remove"
           /\ Slab_get(slab, slabLast'.arg) = None) =>
              (slabLast'.ret = None /\ slab' = slab)]_vars

\* A remove of an Empty entry returned None while two entries are on the
\* free list and one is Full.
C12_Witness ==
    /\ slabLast.op = "remove" /\ slabLast.ret = None
    /\ slabLast.arg \in EmptySlots(slab)
    /\ Cardinality(EmptySlots(slab)) = 2
    /\ Len(slab.storage) = 3

\* C13: insert reuses before it grows, last freed first. When some entry
\* is Empty, insert returns the index removed most recently among those not
\* handed out again since, and the storage keeps its length; when none is,
\* the storage grows by exactly one entry and insert returns its old
\* length. So the storage length is always the largest number of items
\* that were live at one time.
C13_ReuseLifo ==
    /\ [][slabLast'.op = "insert" =>
              IF EmptySlots(slab) # {}
              THEN /\ freed # <<>>
                   /\ slabLast'.ret = Some(freed[Len(freed)])
                   /\ Len(slab'.storage) = Len(slab.storage)
              ELSE /\ slabLast'.ret = Some(Len(slab.storage))
                   /\ Len(slab'.storage) = Len(slab.storage) + 1]_vars
    /\ [][Len(slab'.storage) # Len(slab.storage) =>
              (slabLast'.op = "insert" /\ EmptySlots(slab) = {})]_vars
    /\ [](Len(slab.storage) = peak)

\* Of three items the first and then the last were removed; the insert
\* that followed returned the last one's index and the storage kept its
\* three entries.
C13_Witness ==
    /\ slabLast.op = "insert" /\ slabLast.ret = Some(2)
    /\ freed = <<0>>
    /\ Len(slab.storage) = 3 /\ peak = 3

\* Lowest index among a non-empty set of indices.
Lowest(I) == CHOOSE i \in I : \A j \in I : i <= j

\* C14 as stated: when some entry is Empty, insert returns the lowest
\* index of an Empty entry.
C14_LowestFree ==
    [][(slabLast'.op = "insert" /\ EmptySlots(slab) # {}) =>
           slabLast'.ret = Some(Lowest(EmptySlots(slab)))]_vars

\* C14, amended: when some entry is Empty, insert returns the index of an
\* Empty entry, the one freed most recently; it is the lowest index of an
\* Empty entry when exactly one entry is Empty.
C14_LastFreed ==
    [][(slabLast'.op = "insert" /\ EmptySlots(slab) # {}) =>
           /\ slabLast'.ret.val \in EmptySlots(slab)
           /\ freed # <<>> /\ slabLast'.ret.val = freed[Len(freed)]
           /\ Cardinality(EmptySlots(slab)) = 1 =>
                  slabLast'.ret.val = Lowest(EmptySlots(slab))]_vars

\* An insert returned an index above that of an entry that is still Empty.
C14_Witness ==
    /\ slabLast.op = "insert" /\ ~aborted
    /\ \E i \in EmptySlots(slab) : i < slabLast.ret.val

\* ------------------------------------------------------------------------
\* Properties of the concurrent callers
\* ------------------------------------------------------------------------

Inside(t) == pc[t] \in {"locked", "grown"}

Returned(t) == pc[t] = "idle" /\ call[t].op # "none"

\* C6: every interleaving of the threads' calls gives the return values and
\* the registry of a sequential execution of the same calls (the one in the
\* order of lock acquisition): only the lock holder is inside a function,
\* whenever no thread is inside the registry equals the sequential one,
\* every returned value is the sequential one, and the process aborts only
\* where the sequential execution panics.
C6_Linearizable ==
    /\ \A t \in Threads : Inside(t) => lock = t
    /\ (\A t \in Threads : ~Inside(t)) => slabs = seqSlabs
    /\ \A t \in Threads :
           Returned(t) => (~exp[t].panic /\ ret[t] = exp[t].ret)
    /\ aborted => \E t \in Threads : pc[t] = "panicked" /\ exp[t].panic

\* Two threads have inserted into different module ids, the second growing
\* the registry; each got handle 0 of its module.
C6_Witness ==
    /\ Returned(1) /\ Returned(2)
    /\ call[1].op = "insert" /\ call[2].op = "insert"
    /\ call[1].id = 0 /\ call[2].id = 1
    /\ ret[1] = 0 /\ ret[2] = 0
    /\ Len(slabs) = 2

\* C7: no internal deadlock. Under fair scheduling every call that has
\* started acquires the lock and runs to completion (it returns, with the
\* lock released, or aborts the process); the lock is held only by a thread
\* inside a function, so no thread waits for a lock nobody will release.
C7_NoDeadlock ==
    /\ \A t \in Threads :
           (pc[t] = "waiting") ~> (Returned(t) \/ aborted)
    /\ [](\A t \in Threads : lock = t => (Inside(t) \/ pc[t] = "panicked"))

\* A thread waits for the lock while another thread is inside a function.
C7_Witness ==
    \E t, u \in Threads :
        t # u /\ pc[t] = "waiting" /\ lock = u /\ pc[u] = "grown"

=============================================================================
